---- MODULE Spec2Model ----
(***************************************************************************)
(* hazelcast_monitor.py: a Nagios plugin that queries the Hazelcast        *)
(* management centre, runs one of four checks and exits with the Nagios    *)
(* status of the result.                                                   *)
(*                                                                         *)
(* One run of main() is modelled as a state machine.  Every HTTP request   *)
(* is a step of its own, since the answer is an input of the run and the   *)
(* server may change between two requests.  Everything a check does after  *)
(* its last request (conversion, classification, reduction, message) is    *)
(* one step, and system_exit() is the last step.                           *)
(*                                                                         *)
(* Optional command-line values (None in Python when the flag is absent)   *)
(* are sequences: << >> is None, <<v>> is the value v.                     *)
(* numberOfPolls is counted in tenths, so 0.5 is the number 5.             *)
(* A message is a record: the fixed text, the formatted entries in the     *)
(* order they were appended, and the numbers that close the line.          *)
(***************************************************************************)
EXTENDS Integers, Sequences, FiniteSets, TLC

VARIABLES
    args,            \* parsed command line: check, warning, critical, nodes
    pc,              \* position of the run inside main()
    resp,            \* answer to GET .../members
    queues,          \* answer to GET .../queues
    idx,             \* position of the running "for ... in X.json()" loop
    node_mem_usage,  \* dict of get_cluster_memory / check_cluster_memory
    queue_sizes,     \* dict of get_queue_sizes
    queue_polls,     \* dict of get_queue_polls
    thresholds,      \* << >> or <<warning_threshold, critical_threshold>>
    detail_log,      \* every per-member / per-queue answer, in order
    exit_normal, exit_warning, exit_critical, exit_unknown,
    stdout,          \* lines printed
    exit_status      \* << >> or <<n>>: the argument of sys.exit

vars == << args, pc, resp, queues, idx, node_mem_usage, queue_sizes,
           queue_polls, thresholds, detail_log, exit_normal, exit_warning,
           exit_critical, exit_unknown, stdout, exit_status >>

-----------------------------------------------------------------------------
(* Bounds of the model *)

MaxMembers == 2
MaxQueues == 2
MaxPending == 2

(* Program constants *)

default_node_count == 3
memory_warning == 18000
memory_critical == 22000
queue_size_warning_threshold == 750000
queue_size_critical_threshold == 900000
BytesPerMb == 1048576
HalfPoll == 5
HttpOk == 200

-----------------------------------------------------------------------------
(* Inputs *)

MemberPool == << "hz1", "hz2", "hz3", "hz4" >>
QueuePool == << "q1", "q/2", "q3", "q4" >>

StatusCodes == {200, 404, 500}
UsedMemoryValues == {0, 1048575, 2097152, 3145727}
OwnedItemCounts == {-1, 0, 2}
NumberOfPolls == {4, 5}
ThresholdValues == {0, 1, 2}
NodesTexts == { <<0>>, <<1>>, <<0, 2>> }
Checks == {"cluster_health", "memory", "queue_sizes", "queue_polls"}

Optional(S) == { << >> } \cup { <<v>> : v \in S }

Range(s) == { s[i] : i \in DOMAIN s }

\* A flag the selected check never reads is left unset.
Invocations ==
    { a \in [ check : Optional(Checks), warning : Optional(ThresholdValues),
              critical : Optional(ThresholdValues), nodes : Optional(NodesTexts) ] :
        /\ (a.check \notin { <<"memory">>, <<"queue_sizes">> }
               => a.warning = << >> /\ a.critical = << >>)
        /\ (a.check # <<"cluster_health">> => a.nodes = << >>) }

-----------------------------------------------------------------------------
(* Python helpers *)

\* "if x:" for x None or an int
Truthy(x) == x # << >> /\ x[1] # 0

\* int(s) for a string of decimal digits
RECURSIVE IntOfDigits(_)
IntOfDigits(s) ==
    IF s = << >> THEN 0
    ELSE 10 * IntOfDigits(SubSeq(s, 1, Len(s) - 1)) + s[Len(s)]

\* d[k] = v
DictSet(d, k, v) == [ x \in DOMAIN d \cup {k} |-> IF x = k THEN v ELSE d[x] ]

\* the orders in which "for k in d" may visit the keys of a dict
IterationOrders(d) ==
    { o \in [ 1..Cardinality(DOMAIN d) -> DOMAIN d ] :
        \A i, j \in DOMAIN o : i # j => o[i] # o[j] }

Message(head, items, tail) == [ head |-> head, items |-> items, tail |-> tail ]

-----------------------------------------------------------------------------
(* Command line *)

get_expected_node_count ==
    IF args.nodes # << >> /\ args.nodes[1] # << >>
    THEN IntOfDigits(args.nodes[1])
    ELSE default_node_count

get_check == args.check

get_warning_threshold == args.warning

get_critical_threshold == args.critical

get_memory_threshold(value) ==
    IF value = "warning"
    THEN IF Truthy(get_warning_threshold)
         THEN get_warning_threshold[1] ELSE memory_warning
    ELSE IF Truthy(get_critical_threshold)
         THEN get_critical_threshold[1] ELSE memory_critical

get_queue_size_threshold(value) ==
    IF value = "warning"
    THEN IF Truthy(get_warning_threshold)
         THEN get_warning_threshold[1] ELSE queue_size_warning_threshold
    ELSE IF Truthy(get_critical_threshold)
         THEN get_critical_threshold[1] ELSE queue_size_critical_threshold

-----------------------------------------------------------------------------
(* The decisions of the four checks *)

\* variant: only server errors are fatal
StatusIsOk_Below500(status_code) == status_code < 500

StatusIsOk(status_code) == status_code = HttpOk

\* variant: decimal megabytes
memory_in_mb_Decimal(used_memory) == used_memory \div 1000000

memory_in_mb(used_memory) == used_memory \div BytesPerMb

memory_result(mb, warning_threshold, critical_threshold) ==
    IF mb > critical_threshold THEN "critical"
    ELSE IF mb > warning_threshold THEN "warning"
    ELSE "normal"

\* variant: non-strict comparisons
queue_size_result_NonStrict(size, warning_threshold, critical_threshold) ==
    IF size >= critical_threshold THEN "critical"
    ELSE IF size >= warning_threshold THEN "warning"
    ELSE "normal"

queue_size_result(size, warning_threshold, critical_threshold) ==
    IF size > critical_threshold THEN "critical"
    ELSE IF size > warning_threshold THEN "warning"
    ELSE "normal"

\* variant: a poll rate of exactly 0.5 is critical too
queue_poll_result_NonStrict(size, polls) ==
    IF size > 0 /\ polls <= HalfPoll THEN "critical"
    ELSE IF size > 0 /\ polls > HalfPoll THEN "normal"
    ELSE IF size = 0 THEN "normal"
    ELSE "unknown"

queue_poll_result(size, polls) ==
    IF size > 0 /\ polls < HalfPoll THEN "critical"
    ELSE IF size > 0 /\ polls >= HalfPoll THEN "normal"
    ELSE IF size = 0 THEN "normal"
    ELSE "unknown"

\* variant: non-strict comparison
node_status_result_NonStrict(node_count, expected_node_count) ==
    IF node_count <= expected_node_count THEN "critical" ELSE "normal"

node_status_result(node_count, expected_node_count) ==
    IF node_count < expected_node_count THEN "critical" ELSE "normal"

\* variant: the chain ends in "normal", with no branch for an empty list
threshold_overall_NoUnknown(exit_result) ==
    IF "critical" \in Range(exit_result) THEN "critical"
    ELSE IF "warning" \in Range(exit_result) THEN "warning"
    ELSE "normal"

\* the if/elif chain that closes check_cluster_memory and check_queue_sizes
threshold_overall(exit_result) ==
    IF "critical" \in Range(exit_result) THEN "critical"
    ELSE IF "warning" \in Range(exit_result) THEN "warning"
    ELSE IF "normal" \in Range(exit_result) THEN "normal"
    ELSE "unknown"

\* the if/elif chain that closes check_queue_polls
polls_overall(exit_result) ==
    IF "critical" \in Range(exit_result) THEN "critical"
    ELSE IF "normal" \in Range(exit_result) THEN "normal"
    ELSE "unknown"

\* variant: the warning list is tested before the critical list
exit_code_WarningFirst(critical, warning, unknown, normal) ==
    IF Len(warning) > 0 THEN <<1>>
    ELSE IF Len(critical) > 0 THEN <<2>>
    ELSE IF Len(unknown) > 0 THEN <<3>>
    ELSE IF Len(normal) > 0 THEN <<0>>
    ELSE << >>

\* the status system_exit passes to sys.exit; << >> when it returns
exit_code(critical, warning, unknown, normal) ==
    IF Len(critical) > 0 THEN <<2>>
    ELSE IF Len(warning) > 0 THEN <<1>>
    ELSE IF Len(unknown) > 0 THEN <<3>>
    ELSE IF Len(normal) > 0 THEN <<0>>
    ELSE << >>

\* the line system_exit prints: the first entry of the list it chose
exit_line(critical, warning, unknown, normal) ==
    IF Len(critical) > 0 THEN <<critical[1]>>
    ELSE IF Len(warning) > 0 THEN <<warning[1]>>
    ELSE IF Len(unknown) > 0 THEN <<unknown[1]>>
    ELSE IF Len(normal) > 0 THEN <<normal[1]>>
    ELSE << >>

\* exit_<severity>.append(message)
Report(severity, message) ==
    /\ exit_critical' = IF severity = "critical"
                        THEN Append(exit_critical, message) ELSE exit_critical
    /\ exit_warning' = IF severity = "warning"
                       THEN Append(exit_warning, message) ELSE exit_warning
    /\ exit_normal' = IF severity = "normal"
                      THEN Append(exit_normal, message) ELSE exit_normal
    /\ exit_unknown' = IF severity = "unknown"
                       THEN Append(exit_unknown, message) ELSE exit_unknown

-----------------------------------------------------------------------------
(* The run *)

NotFetched == [ status_code |-> 0, json |-> << >> ]

Init ==
    /\ args \in Invocations
    /\ pc = "main"
    /\ resp = NotFetched
    /\ queues = NotFetched
    /\ idx = 1
    /\ node_mem_usage = << >>
    /\ queue_sizes = << >>
    /\ queue_polls = << >>
    /\ thresholds = << >>
    /\ detail_log = << >>
    /\ exit_normal = << >>
    /\ exit_warning = << >>
    /\ exit_critical = << >>
    /\ exit_unknown = << >>
    /\ stdout = << >>
    /\ exit_status = << >>

\* main: resp = get_members(env), then the status test
get_members ==
    /\ pc = "main"
    /\ \E status \in StatusCodes, n \in 0..MaxMembers :
          /\ resp' = [ status_code |-> status, json |-> SubSeq(MemberPool, 1, n) ]
          /\ pc' = IF StatusIsOk(status) THEN "get_queues" ELSE "ApiError"
    /\ UNCHANGED << args, queues, idx, node_mem_usage, queue_sizes, queue_polls,
                    thresholds, detail_log, exit_normal, exit_warning,
                    exit_critical, exit_unknown, stdout, exit_status >>

\* main: queues = get_queues(env), then the status test
get_queues ==
    /\ pc = "get_queues"
    /\ \E status \in StatusCodes, n \in 0..MaxQueues :
          /\ queues' = [ status_code |-> status, json |-> SubSeq(QueuePool, 1, n) ]
          /\ pc' = IF StatusIsOk(status) THEN "dispatch" ELSE "ApiError"
    /\ UNCHANGED << args, resp, idx, node_mem_usage, queue_sizes, queue_polls,
                    thresholds, detail_log, exit_normal, exit_warning,
                    exit_critical, exit_unknown, stdout, exit_status >>

\* main: the if/elif on the name of the check, up to the call of the check
dispatch ==
    /\ pc = "dispatch"
    /\ \/ /\ get_check = <<"cluster_health">>
          /\ pc' = "check_node_status"
          /\ stdout' = stdout
       \/ /\ get_check = <<"memory">>
          /\ pc' = "get_cluster_memory"
          /\ stdout' = stdout
       \/ /\ get_check \in { <<"queue_sizes">>, <<"queue_polls">> }
          /\ pc' = "get_queue_sizes"
          /\ stdout' = stdout
       \/ /\ get_check \notin Optional(Checks) \ { << >> }
          /\ pc' = "system_exit"
          /\ stdout' = Append(stdout, Message("No check specified.", << >>, << >>))
    /\ idx' = 1
    /\ UNCHANGED << args, resp, queues, node_mem_usage, queue_sizes, queue_polls,
                    thresholds, detail_log, exit_normal, exit_warning,
                    exit_critical, exit_unknown, exit_status >>

\* check_node_status
check_node_status ==
    /\ pc = "check_node_status"
    /\ LET node_names == resp.json
           node_count == Len(resp.json)
           expected_node_count == get_expected_node_count
           severity == node_status_result(node_count, expected_node_count)
           head == IF severity = "critical"
                   THEN "CRITICAL: nodes are up. Alive cluster members: "
                   ELSE "All nodes are up. Cluster members: "
       IN  Report(severity,
                  Message(head, node_names, <<node_count, expected_node_count>>))
    /\ pc' = "system_exit"
    /\ UNCHANGED << args, resp, queues, idx, node_mem_usage, queue_sizes,
                    queue_polls, thresholds, detail_log, stdout, exit_status >>

\* get_cluster_memory: one turn of its loop, or its return
get_cluster_memory ==
    /\ pc = "get_cluster_memory"
    /\ \/ /\ idx <= Len(resp.json)
          /\ \E used \in UsedMemoryValues :
                LET node == resp.json[idx]
                    issue == [ name |-> node, usedMemory |-> used ]
                IN  /\ node_mem_usage' =
                           DictSet(node_mem_usage, issue.name, issue.usedMemory)
                    /\ detail_log' = Append(detail_log,
                           [ path |-> <<"members", node>>, body |-> issue ])
          /\ idx' = idx + 1
          /\ pc' = pc
       \/ /\ idx > Len(resp.json)
          /\ pc' = "check_cluster_memory"
          /\ UNCHANGED << idx, node_mem_usage, detail_log >>
    /\ UNCHANGED << args, resp, queues, queue_sizes, queue_polls, thresholds,
                    exit_normal, exit_warning, exit_critical, exit_unknown,
                    stdout, exit_status >>

\* check_cluster_memory, after get_cluster_memory returned
check_cluster_memory ==
    /\ pc = "check_cluster_memory"
    /\ \E order \in IterationOrders(node_mem_usage) :
          LET warning_threshold == get_memory_threshold("warning")
              critical_threshold == get_memory_threshold("critical")
              in_mb == [ node \in DOMAIN node_mem_usage |->
                           memory_in_mb(node_mem_usage[node]) ]
              output_string == [ i \in DOMAIN order |-> <<order[i], in_mb[order[i]]>> ]
              exit_result == [ i \in DOMAIN order |->
                                 memory_result(in_mb[order[i]], warning_threshold,
                                               critical_threshold) ]
              severity == threshold_overall(exit_result)
              message ==
                  CASE severity = "critical" ->
                         Message("CRITICAL: Memory utilization: ", output_string,
                                 <<critical_threshold>>)
                    [] severity = "warning" ->
                         Message("WARNING: Memory utilization: ", output_string,
                                 <<warning_threshold>>)
                    [] severity = "normal" ->
                         Message("Memory utilization: ", output_string, << >>)
                    [] OTHER ->
                         Message("Cannot determine heap utilization", << >>, << >>)
          IN  /\ node_mem_usage' = in_mb
              /\ thresholds' = <<warning_threshold, critical_threshold>>
              /\ Report(severity, message)
    /\ pc' = "system_exit"
    /\ UNCHANGED << args, resp, queues, idx, queue_sizes, queue_polls,
                    detail_log, stdout, exit_status >>

\* get_queue_sizes: one turn of its loop, or its return
get_queue_sizes ==
    /\ pc = "get_queue_sizes"
    /\ \/ /\ idx <= Len(queues.json)
          /\ \E size \in OwnedItemCounts, polls \in NumberOfPolls :
                LET queue_name == queues.json[idx]
                    queue_info == [ ownedItemCount |-> size, numberOfPolls |-> polls ]
                IN  /\ queue_sizes' =
                           DictSet(queue_sizes, queue_name, queue_info.ownedItemCount)
                    /\ detail_log' = Append(detail_log,
                           [ path |-> <<"queues", queue_name>>, body |-> queue_info ])
          /\ idx' = idx + 1
          /\ pc' = pc
       \/ /\ idx > Len(queues.json)
          /\ pc' = IF get_check = <<"queue_polls">>
                   THEN "get_queue_polls" ELSE "check_queue_sizes"
          /\ idx' = 1
          /\ UNCHANGED << queue_sizes, detail_log >>
    /\ UNCHANGED << args, resp, queues, node_mem_usage, queue_polls, thresholds,
                    exit_normal, exit_warning, exit_critical, exit_unknown,
                    stdout, exit_status >>

\* get_queue_polls: one turn of its loop, or its return
get_queue_polls ==
    /\ pc = "get_queue_polls"
    /\ \/ /\ idx <= Len(queues.json)
          /\ \E size \in OwnedItemCounts, polls \in NumberOfPolls :
                LET queue_name == queues.json[idx]
                    queue_info == [ ownedItemCount |-> size, numberOfPolls |-> polls ]
                IN  /\ queue_polls' =
                           DictSet(queue_polls, queue_name, queue_info.numberOfPolls)
                    /\ detail_log' = Append(detail_log,
                           [ path |-> <<"queues", queue_name>>, body |-> queue_info ])
          /\ idx' = idx + 1
          /\ pc' = pc
       \/ /\ idx > Len(queues.json)
          /\ pc' = "check_queue_polls"
          /\ UNCHANGED << idx, queue_polls, detail_log >>
    /\ UNCHANGED << args, resp, queues, node_mem_usage, queue_sizes, thresholds,
                    exit_normal, exit_warning, exit_critical, exit_unknown,
                    stdout, exit_status >>

\* check_queue_sizes, after get_queue_sizes returned
check_queue_sizes ==
    /\ pc = "check_queue_sizes"
    /\ \E order \in IterationOrders(queue_sizes) :
          LET warning_threshold == get_queue_size_threshold("warning")
              critical_threshold == get_queue_size_threshold("critical")
              exit_result == [ i \in DOMAIN order |->
                                 queue_size_result(queue_sizes[order[i]],
                                                   warning_threshold, critical_threshold) ]
              listed == SelectSeq(order, LAMBDA q :
                           queue_size_result(queue_sizes[q], warning_threshold,
                                             critical_threshold) # "normal")
              output_string == [ i \in DOMAIN listed |->
                                   <<listed[i], queue_sizes[listed[i]]>> ]
              severity == threshold_overall(exit_result)
              message ==
                  CASE severity = "critical" ->
                         Message("CRITICAL: ", output_string, <<critical_threshold>>)
                    [] severity = "warning" ->
                         Message("WARNING: ", output_string, <<warning_threshold>>)
                    [] severity = "normal" ->
                         Message("All queue sizes are below threshold", << >>, << >>)
                    [] OTHER ->
                         Message("Cannot determine queue sizes", << >>, << >>)
          IN  /\ thresholds' = <<warning_threshold, critical_threshold>>
              /\ Report(severity, message)
    /\ pc' = "system_exit"
    /\ UNCHANGED << args, resp, queues, idx, node_mem_usage, queue_sizes,
                    queue_polls, detail_log, stdout, exit_status >>

\* check_queue_polls, after get_queue_sizes and get_queue_polls returned
check_queue_polls ==
    /\ pc = "check_queue_polls"
    /\ \E order \in IterationOrders(queue_sizes) :
          LET exit_result == [ i \in DOMAIN order |->
                                 queue_poll_result(queue_sizes[order[i]],
                                                   queue_polls[order[i]]) ]
              listed == SelectSeq(order, LAMBDA q :
                           queue_poll_result(queue_sizes[q], queue_polls[q]) = "critical")
              output_string == [ i \in DOMAIN listed |->
                                   <<listed[i], queue_sizes[listed[i]],
                                     queue_polls[listed[i]]>> ]
              severity == polls_overall(exit_result)
              message ==
                  CASE severity = "critical" ->
                         Message("CRITICAL: ", output_string, << >>)
                    [] severity = "normal" ->
                         Message("All queue size/poll combinations are normal",
                                 << >>, << >>)
                    [] OTHER ->
                         Message("Cannot determine queue size/poll count information",
                                 << >>, << >>)
          IN  Report(severity, message)
    /\ pc' = "system_exit"
    /\ UNCHANGED << args, resp, queues, idx, node_mem_usage, queue_sizes,
                    queue_polls, thresholds, detail_log, stdout, exit_status >>

\* system_exit
system_exit ==
    /\ pc = "system_exit"
    /\ LET status == exit_code(exit_critical, exit_warning, exit_unknown, exit_normal)
           line == exit_line(exit_critical, exit_warning, exit_unknown, exit_normal)
       IN  /\ exit_status' = status
           /\ stdout' = stdout \o line
           /\ pc' = IF status = << >> THEN "returned" ELSE "exited"
    /\ UNCHANGED << args, resp, queues, idx, node_mem_usage, queue_sizes,
                    queue_polls, thresholds, detail_log, exit_normal, exit_warning,
                    exit_critical, exit_unknown >>

Next ==
    \/ get_members
    \/ get_queues
    \/ dispatch
    \/ check_node_status
    \/ get_cluster_memory
    \/ check_cluster_memory
    \/ get_queue_sizes
    \/ get_queue_polls
    \/ check_queue_sizes
    \/ check_queue_polls
    \/ system_exit

Spec == Init /\ [][Next]_vars

-----------------------------------------------------------------------------
(* system_exit on its own, over every content of the four lists *)

SampleMessages ==
    { Message("first", << >>, << >>), Message("second", << >>, << >>) }

PendingLists ==
    UNION { [ 1..n -> SampleMessages ] : n \in 0..MaxPending }

InitExit ==
    /\ args = [ check |-> << >>, warning |-> << >>, critical |-> << >>,
                nodes |-> << >> ]
    /\ pc = "system_exit"
    /\ resp = NotFetched
    /\ queues = NotFetched
    /\ idx = 1
    /\ node_mem_usage = << >>
    /\ queue_sizes = << >>
    /\ queue_polls = << >>
    /\ thresholds = << >>
    /\ detail_log = << >>
    /\ exit_normal \in PendingLists
    /\ exit_warning \in PendingLists
    /\ exit_critical \in PendingLists
    /\ exit_unknown \in PendingLists
    /\ stdout = << >>
    /\ exit_status = << >>

NextExit == system_exit

SpecExit == InitExit /\ [][NextExit]_vars

-----------------------------------------------------------------------------
(* What a finished run shows, in the words of the specification *)

Exited == pc = "exited"

Ran(check) == Exited /\ args.check = <<check>>

\* the severities with a pending result
Pending ==
    { sev \in {"CRITICAL", "WARNING", "UNKNOWN", "NORMAL"} :
        \/ sev = "CRITICAL" /\ exit_critical # << >>
        \/ sev = "WARNING" /\ exit_warning # << >>
        \/ sev = "UNKNOWN" /\ exit_unknown # << >>
        \/ sev = "NORMAL" /\ exit_normal # << >> }

NagiosStatus(sev) ==
    CASE sev = "CRITICAL" -> 2
      [] sev = "WARNING" -> 1
      [] sev = "UNKNOWN" -> 3
      [] sev = "NORMAL" -> 0

\* the run reported exactly this verdict and exited with its status
Verdict(sev) == Pending = {sev} /\ exit_status = <<NagiosStatus(sev)>>

\* the detail answers the server gave for one member or queue
Answers(resource, name) ==
    { detail_log[i].body : i \in { j \in DOMAIN detail_log :
                                     detail_log[j].path = <<resource, name>> } }

\* k = floor(bytes / 1048576): k * 1048576 <= bytes < (k + 1) * 1048576
IsFloorMb(k, bytes) == k * 1048576 <= bytes /\ bytes < (k + 1) * 1048576

UsedMemoryOf(member) == (CHOOSE a \in Answers("members", member) : TRUE).usedMemory

OwnedItemCountOf(queue) == (CHOOSE a \in Answers("queues", queue) : TRUE).ownedItemCount

\* the names a printed message lists
NamesListed(message) == { message.items[i][1] : i \in DOMAIN message.items }

-----------------------------------------------------------------------------
(* C1 *)

\* C1: system_exit exits with the status of the highest-precedence pending
\* result: 2 if exit_critical is non-empty, else 1 if exit_warning is, else 3
\* if exit_unknown is, else 0; never 1 while a CRITICAL result is pending.
C1_ExitStatusFollowsPrecedence ==
    (pc \in {"exited", "returned"} /\ Pending # {}) =>
        /\ "CRITICAL" \in Pending => exit_status = <<2>>
        /\ "CRITICAL" \notin Pending /\ "WARNING" \in Pending => exit_status = <<1>>
        /\ Pending \subseteq {"UNKNOWN", "NORMAL"} /\ "UNKNOWN" \in Pending
              => exit_status = <<3>>
        /\ Pending = {"NORMAL"} => exit_status = <<0>>
        /\ "CRITICAL" \in Pending => exit_status # <<1>>

C1_Witness ==
    /\ Exited
    /\ {"CRITICAL", "WARNING"} \subseteq Pending
    /\ exit_status = <<2>>

-----------------------------------------------------------------------------
(* C2 *)

\* C2: memory check over a non-empty member list: every member's bytes are
\* reported as floor(bytes / 1048576) MB, and the verdict is CRITICAL if some
\* member's MB > the critical threshold, else WARNING if some member's MB >
\* the warning threshold, else NORMAL (strict comparisons).
C2_MemoryVerdict ==
    (Ran("memory") /\ resp.json # << >>) =>
        LET members == Range(resp.json)
            warning == thresholds[1]
            critical == thresholds[2]
            listed == Range(stdout[1].items)
            MbOf(m) == (CHOOSE item \in listed : item[1] = m)[2]
            anyCritical == \E m \in members : MbOf(m) > critical
            anyWarning == \E m \in members : MbOf(m) > warning
        IN  /\ NamesListed(stdout[1]) = members
            /\ Cardinality(listed) = Cardinality(members)
            /\ \A m \in members : IsFloorMb(MbOf(m), UsedMemoryOf(m))
            /\ Verdict(IF anyCritical THEN "CRITICAL"
                       ELSE IF anyWarning THEN "WARNING" ELSE "NORMAL")

\* two members, one exactly at the warning threshold and one just below the
\* next megabyte: nothing fires
C2_Witness ==
    /\ Ran("memory")
    /\ Len(resp.json) = 2
    /\ thresholds = <<2, 2>>
    /\ \E m \in Range(resp.json) : UsedMemoryOf(m) = 3145727
    /\ \E m \in Range(resp.json) : UsedMemoryOf(m) = 2097152
    /\ Verdict("NORMAL")

-----------------------------------------------------------------------------
(* C3 *)

\* C3: queue_sizes check over a non-empty queue list: CRITICAL if some queue's
\* ownedItemCount > the critical threshold, else WARNING if some queue's count
\* > the warning threshold, else NORMAL; a CRITICAL or WARNING message names
\* only queues whose count exceeds the critical or the warning threshold.
C3_QueueSizesVerdict ==
    (Ran("queue_sizes") /\ queues.json # << >>) =>
        LET names == Range(queues.json)
            warning == thresholds[1]
            critical == thresholds[2]
            anyCritical == \E q \in names : OwnedItemCountOf(q) > critical
            anyWarning == \E q \in names : OwnedItemCountOf(q) > warning
        IN  /\ Verdict(IF anyCritical THEN "CRITICAL"
                       ELSE IF anyWarning THEN "WARNING" ELSE "NORMAL")
            /\ (anyCritical \/ anyWarning) =>
                  \A q \in NamesListed(stdout[1]) :
                      /\ q \in names
                      /\ \/ OwnedItemCountOf(q) > critical
                         \/ OwnedItemCountOf(q) > warning

\* a WARNING whose message names one queue and leaves the other out, the
\* named queue sitting exactly at the critical threshold
C3_Witness ==
    /\ Ran("queue_sizes")
    /\ Len(queues.json) = 2
    /\ thresholds = <<1, 2>>
    /\ Verdict("WARNING")
    /\ \E q \in Range(queues.json) :
          /\ OwnedItemCountOf(q) = 2
          /\ NamesListed(stdout[1]) = {q}

-----------------------------------------------------------------------------
(* C4 *)

ClaimedPollClass(size, polls) ==
    IF size > 0 /\ polls < 5 THEN "CRITICAL"
    ELSE IF (size > 0 /\ polls >= 5) \/ size = 0 THEN "NORMAL"
    ELSE "UNKNOWN"

\* the class of each listed queue, from the values the evaluator holds
PollClasses ==
    { ClaimedPollClass(queue_sizes[q], queue_polls[q]) : q \in Range(queues.json) }

\* C4: queue_polls check: a queue is CRITICAL if size > 0 and polls < 0.5,
\* NORMAL if (size > 0 and polls >= 0.5) or size = 0, else UNKNOWN; the verdict
\* is CRITICAL if some queue is CRITICAL, else NORMAL if some queue is NORMAL,
\* else UNKNOWN; a WARNING result is never produced.
C4_QueuePollsVerdict ==
    Ran("queue_polls") =>
        /\ Verdict(IF "CRITICAL" \in PollClasses THEN "CRITICAL"
                   ELSE IF "NORMAL" \in PollClasses THEN "NORMAL" ELSE "UNKNOWN")
        /\ exit_warning = << >>

\* one queue with a backlog polled at exactly 0.5: NORMAL
C4_Witness ==
    /\ Ran("queue_polls")
    /\ Len(queues.json) = 1
    /\ queue_sizes[queues.json[1]] = 2
    /\ queue_polls[queues.json[1]] = 5
    /\ Verdict("NORMAL")

-----------------------------------------------------------------------------
(* C5 *)

\* the expected count: the --nodes value when supplied, otherwise 3
ClaimedExpected ==
    IF args.nodes = << >> THEN 3 ELSE IntOfDigits(args.nodes[1])

\* C5: cluster_health check: CRITICAL exactly when the observed member count
\* is below the expected count, NORMAL otherwise; never WARNING or UNKNOWN.
C5_ClusterHealthVerdict ==
    Ran("cluster_health") =>
        /\ Verdict(IF Len(resp.json) < ClaimedExpected THEN "CRITICAL" ELSE "NORMAL")
        /\ exit_warning = << >>
        /\ exit_unknown = << >>

\* more members than expected: NORMAL
C5_Witness ==
    /\ Ran("cluster_health")
    /\ args.nodes = << <<1>> >>
    /\ Len(resp.json) = 2
    /\ Verdict("NORMAL")

-----------------------------------------------------------------------------
(* C6 *)

\* the list the selected check evaluates is empty
EvaluatedListEmpty ==
    \/ args.check \in { <<"cluster_health">>, <<"memory">> } /\ resp.json = << >>
    \/ args.check \in { <<"queue_sizes">>, <<"queue_polls">> } /\ queues.json = << >>

\* C6 as stated: whichever of the four checks runs, an empty member or queue
\* list makes the run report UNKNOWN and exit with status 3.
C6_EmptyListIsUnknown ==
    (Exited /\ EvaluatedListEmpty) => Verdict("UNKNOWN")

\* C6 as amended: for memory, queue_sizes and queue_polls an empty list makes
\* the run report UNKNOWN and exit with status 3, never NORMAL; cluster_health
\* evaluates an empty member list as an observed count of 0: CRITICAL (status
\* 2) when the expected count is above 0, NORMAL (status 0) when it is 0.
C6_EmptyListVerdict ==
    (Exited /\ EvaluatedListEmpty) =>
        IF args.check = <<"cluster_health">>
        THEN Verdict(IF 0 < ClaimedExpected THEN "CRITICAL" ELSE "NORMAL")
        ELSE Verdict("UNKNOWN") /\ exit_normal = << >>

\* the memory check over an empty member list ended UNKNOWN
C6_Witness ==
    /\ Ran("memory")
    /\ resp.json = << >>
    /\ detail_log = << >>
    /\ Verdict("UNKNOWN")

-----------------------------------------------------------------------------
(* C7 *)

ClaimedThreshold(supplied, default) ==
    IF supplied # << >> THEN supplied[1] ELSE default

\* C7: each side of the threshold pair resolves to the supplied integer
\* whenever one was supplied (0 included) and to the built-in default of the
\* kind only when that side was not supplied, independently of the other side.
C7_SuppliedThresholdIsUsed ==
    thresholds # << >> =>
        IF args.check = <<"memory">>
        THEN /\ thresholds[1] = ClaimedThreshold(args.warning, 18000)
             /\ thresholds[2] = ClaimedThreshold(args.critical, 22000)
        ELSE /\ thresholds[1] = ClaimedThreshold(args.warning, 750000)
             /\ thresholds[2] = ClaimedThreshold(args.critical, 900000)

-----------------------------------------------------------------------------
(* C8 *)

TopLevelFetchFailed ==
    \/ resp.status_code \notin {0, 200}
    \/ queues.status_code \notin {0, 200}

\* C8: once the members fetch or the queues fetch has answered with a status
\* other than 200 the run is aborted with ApiError: no detail fetch was or is
\* issued, the four result lists stay empty, nothing is printed and
\* system_exit sets no status.
C8_ApiErrorAbortsBeforeChecks ==
    TopLevelFetchFailed =>
        /\ pc = "ApiError"
        /\ detail_log = << >>
        /\ Pending = {}
        /\ stdout = << >>
        /\ exit_status = << >>

\* members answered 200, queues answered 404, in a run of a member check
C8_Witness ==
    /\ pc = "ApiError"
    /\ args.check = <<"memory">>
    /\ resp.status_code = 200
    /\ resp.json # << >>
    /\ queues.status_code = 404

-----------------------------------------------------------------------------
(* C9 *)

\* C9: in the queue_polls check a queue that matches neither the CRITICAL nor
\* the NORMAL branch is never dropped: the run does not report NORMAL; it
\* reports UNKNOWN (status 3) unless a CRITICAL queue outranks it.
C9_GapIsNeverDropped ==
    (Ran("queue_polls") /\ "UNKNOWN" \in PollClasses) =>
        /\ "NORMAL" \notin Pending
        /\ exit_status # <<0>>
        /\ IF "CRITICAL" \in PollClasses
           THEN Verdict("CRITICAL") ELSE Verdict("UNKNOWN")

-----------------------------------------------------------------------------
(* C10 *)

\* how many detail fetches the run issued for a queue
DetailFetches(queue) ==
    Cardinality({ i \in DOMAIN detail_log : detail_log[i].path = <<"queues", queue>> })

\* the (size, polls) pair the evaluator classified is one the server reported
C10_PairWasReported(queue) ==
    [ ownedItemCount |-> queue_sizes[queue], numberOfPolls |-> queue_polls[queue] ]
        \in Answers("queues", queue)

\* C10: in the queue_polls check exactly one detail fetch is issued per listed
\* queue, and the size and the polls classified for a queue come from that one
\* answer, so every classified pair was reported together by the server.
C10_OneFetchJointRead ==
    Ran("queue_polls") =>
        \A q \in Range(queues.json) :
            /\ DetailFetches(q) = 1
            /\ C10_PairWasReported(q)

====
